---- MODULE Spec2Model ----
(***************************************************************************)
(* Snake (pygame): the Snake and Food classes and the controller of        *)
(* game_loop in src/main.py, as a state machine.                           *)
(*                                                                         *)
(* Spec      the game loop: input events, then one update per frame.       *)
(* SnakeSpec a Snake object driven through its public methods alone.       *)
(***************************************************************************)
EXTENDS Integers, Sequences, FiniteSets, TLC

\* Grid size. The program fixes 30 x 20 (600 // 20, 400 // 20); the model
\* keeps the same code on a smaller grid.
COLUMNS == 4
ROWS == 2

\* Bounds of SnakeSpec: the number of method calls made on the Snake, and
\* the largest argument given to grow.
MaxLog == 5
MaxGrowArg == 2

\* Bound of FoodSpec: the occupied sets tried have at most MaxCells cells,
\* or all grid cells but at most MaxCells.
MaxCells == 2

\* Direction vectors
UP == <<0, -1>>
DOWN == <<0, 1>>
LEFT == <<-1, 0>>
RIGHT == <<1, 0>>

Directions == {UP, DOWN, LEFT, RIGHT}

NONE == <<0, 0>>

Max(a, b) == IF a >= b THEN a ELSE b

Range(seq) == {seq[i] : i \in DOMAIN seq}

AllCells == (0..(COLUMNS - 1)) \X (0..(ROWS - 1))

----------------------------------------------------------------------------
\* class Snake

\* Mutant of Snake.__init__: the body starts with the head alone.
Snake_head_only(start_pos) ==
    [body |-> <<start_pos>>,
     direction |-> RIGHT,
     pending_growth |-> 0,
     next_direction |-> RIGHT]

Snake(start_pos) ==
    [body |-> <<start_pos, <<start_pos[1] - 1, start_pos[2]>>>>,
     direction |-> RIGHT,
     pending_growth |-> 0,
     next_direction |-> RIGHT]

\* Mutant of head: the last element of the body instead of the first.
head_is_last(s) == s.body[Len(s.body)]

head(s) == s.body[1]

\* Mutant of _is_opposite: the sign of the row component is lost.
is_opposite_sign_slip(a, b) == a[1] = -b[1] /\ a[2] = b[2]

is_opposite(a, b) == a[1] = -b[1] /\ a[2] = -b[2]

\* Mutant of set_direction: the reversal test reads the buffered direction.
set_direction_against_buffer(s, new_dir) ==
    IF ~is_opposite(new_dir, s.next_direction)
    THEN [s EXCEPT !.next_direction = new_dir]
    ELSE s

\* Mutant of set_direction: only the first change of a tick is taken.
set_direction_first_wins(s, new_dir) ==
    IF ~is_opposite(new_dir, s.direction) /\ s.next_direction = s.direction
    THEN [s EXCEPT !.next_direction = new_dir]
    ELSE s

\* Mutant of set_direction: an accepted call first commits what was buffered.
set_direction_commits_buffer(s, new_dir) ==
    IF ~is_opposite(new_dir, s.direction)
    THEN [s EXCEPT !.direction = s.next_direction,
                   !.next_direction = new_dir]
    ELSE s

set_direction(s, new_dir) ==
    IF ~is_opposite(new_dir, s.direction)
    THEN [s EXCEPT !.next_direction = new_dir]
    ELSE s

\* Mutant of move: the pending growth is never used up.
move_keeps_pending(s) ==
    LET dir == s.next_direction
        new_head == <<head(s)[1] + dir[1], head(s)[2] + dir[2]>>
        inserted == <<new_head>> \o s.body
    IN  IF s.pending_growth > 0
        THEN [s EXCEPT !.direction = dir, !.body = inserted]
        ELSE [s EXCEPT !.direction = dir,
                       !.body = SubSeq(inserted, 1, Len(inserted) - 1)]

\* Mutant of move: the tail is removed even when growing.
move_always_pops(s) ==
    LET dir == s.next_direction
        new_head == <<head(s)[1] + dir[1], head(s)[2] + dir[2]>>
        inserted == <<new_head>> \o s.body
    IN  IF s.pending_growth > 0
        THEN [s EXCEPT !.direction = dir,
                       !.body = SubSeq(inserted, 1, Len(inserted) - 1),
                       !.pending_growth = s.pending_growth - 1]
        ELSE [s EXCEPT !.direction = dir,
                       !.body = SubSeq(inserted, 1, Len(inserted) - 1)]

\* Mutant of move: the components of the direction are swapped.
move_swapped_axes(s) ==
    LET dir == s.next_direction
        new_head == <<head(s)[1] + dir[2], head(s)[2] + dir[1]>>
        inserted == <<new_head>> \o s.body
    IN  IF s.pending_growth > 0
        THEN [s EXCEPT !.direction = dir,
                       !.body = inserted,
                       !.pending_growth = s.pending_growth - 1]
        ELSE [s EXCEPT !.direction = dir,
                       !.body = SubSeq(inserted, 1, Len(inserted) - 1)]

move(s) ==
    LET dir == s.next_direction
        new_head == <<head(s)[1] + dir[1], head(s)[2] + dir[2]>>
        inserted == <<new_head>> \o s.body
    IN  IF s.pending_growth > 0
        THEN [s EXCEPT !.direction = dir,
                       !.body = inserted,
                       !.pending_growth = s.pending_growth - 1]
        ELSE [s EXCEPT !.direction = dir,
                       !.body = SubSeq(inserted, 1, Len(inserted) - 1)]

\* Mutant of grow: one segment too many.
grow_one_more(s, n) == [s EXCEPT !.pending_growth = s.pending_growth + Max(1, n) + 1]

grow(s, n) == [s EXCEPT !.pending_growth = s.pending_growth + Max(1, n)]

\* Mutant of hits_wall: the right and bottom edges are off by one.
hits_wall_off_by_one(s) ==
    LET x == head(s)[1]
        y == head(s)[2]
    IN  x < 0 \/ x > COLUMNS \/ y < 0 \/ y > ROWS

\* Mutant of hits_wall: the rows are not tested.
hits_wall_columns_only(s) ==
    LET x == head(s)[1]
    IN  x < 0 \/ x >= COLUMNS

hits_wall(s) ==
    LET x == head(s)[1]
        y == head(s)[2]
    IN  x < 0 \/ x >= COLUMNS \/ y < 0 \/ y >= ROWS

\* Mutant of hits_self: the last segment is left out of the test.
hits_self_without_tail(s) == \E i \in 2..(Len(s.body) - 1) : s.body[i] = head(s)

hits_self(s) == \E i \in 2..Len(s.body) : s.body[i] = head(s)

occupies(s) == Range(s.body)

----------------------------------------------------------------------------
\* class Food

\* Mutant of random_free_cell: the occupied cells are not filtered out.
random_free_cell_unfiltered(occupied) ==
    {<<x, y>> : x \in 0..(COLUMNS - 1), y \in 0..(ROWS - 1)}

\* Mutant of random_free_cell: the ranges run one cell too far.
random_free_cell_wide(occupied) ==
    LET all_cells == {<<x, y>> : x \in 0..COLUMNS, y \in 0..ROWS}
        free_cells == {c \in all_cells : c \notin occupied}
    IN  IF free_cells = {} THEN {<<0, 0>>} ELSE free_cells

\* The cells random.choice may return: every free cell, or the fallback.
random_free_cell(occupied) ==
    LET all_cells == {<<x, y>> : x \in 0..(COLUMNS - 1), y \in 0..(ROWS - 1)}
        free_cells == {c \in all_cells : c \notin occupied}
    IN  IF free_cells = {} THEN {<<0, 0>>} ELSE free_cells

----------------------------------------------------------------------------
\* game_loop

VARIABLES
    snake,      \* the Snake object of the running game
    food,       \* food.pos
    score,
    game_over,
    running,
    pc,         \* "loop": inside while running; "done": after pygame.quit()
    last,       \* history: the last handler that ran: "start", "update",
                \* "quit" (QUIT or K_ESCAPE), "restart" (a key that started a
                \* new game), "key" (any other key handled); in SnakeSpec
                \* and FoodSpec, the last method called
    log         \* history (SnakeSpec): the calls made on the Snake, in order,
                \* each with the Snake as it was when the call returned

vars == <<snake, food, score, game_over, running, pc, last, log>>

start == <<COLUMNS \div 4, ROWS \div 2>>

Init ==
    /\ snake = Snake(start)
    /\ food \in random_free_cell(occupies(Snake(start)))
    /\ score = 0
    /\ running = TRUE
    /\ game_over = FALSE
    /\ pc = "loop"
    /\ last = "start"
    /\ log = <<>>

\* event.type == pygame.QUIT
EventQuit ==
    /\ pc = "loop"
    /\ running' = FALSE
    /\ last' = "quit"
    /\ UNCHANGED <<snake, food, score, game_over, pc, log>>

\* KEYDOWN, K_ESCAPE: running is cleared; the key is neither a direction
\* key nor a restart key, so neither branch below it does anything.
KeyEscape ==
    /\ pc = "loop"
    /\ running' = FALSE
    /\ last' = "quit"
    /\ UNCHANGED <<snake, food, score, game_over, pc, log>>

\* Mutant of KeyDirection: the key is handled whatever game_over is.
KeyDirection_unguarded(d) ==
    /\ pc = "loop"
    /\ snake' = set_direction(snake, d)
    /\ last' = "key"
    /\ UNCHANGED <<food, score, game_over, running, pc, log>>

\* KEYDOWN, an arrow key or W/A/S/D
KeyDirection(d) ==
    /\ pc = "loop"
    /\ snake' = IF ~game_over THEN set_direction(snake, d) ELSE snake
    /\ last' = "key"
    /\ UNCHANGED <<food, score, game_over, running, pc, log>>

\* Mutant of KeyRestart: the score of the finished game is kept.
KeyRestart_keeps_score ==
    /\ pc = "loop"
    /\ IF game_over
       THEN /\ snake' = Snake(start)
            /\ food' \in random_free_cell(occupies(Snake(start)))
            /\ game_over' = FALSE
            /\ UNCHANGED score
       ELSE UNCHANGED <<snake, food, score, game_over>>
    /\ last' = IF game_over THEN "restart" ELSE "key"
    /\ UNCHANGED <<running, pc, log>>

\* KEYDOWN, K_RETURN or K_r: a new game in GameOver, nothing while Playing.
KeyRestartStep ==
    /\ pc = "loop"
    /\ IF game_over
       THEN /\ snake' = Snake(start)
            /\ food' \in random_free_cell(occupies(Snake(start)))
            /\ score' = 0
            /\ game_over' = FALSE
       ELSE UNCHANGED <<snake, food, score, game_over>>
    /\ last' = IF game_over THEN "restart" ELSE "key"
    /\ UNCHANGED <<running, pc>>

KeyRestart == KeyRestartStep /\ UNCHANGED log

\* The rest of one iteration of while running: update, then the loop test.
UpdateStep ==
    /\ pc = "loop"
    /\ IF ~game_over
       THEN LET moved == move(snake)
                collided == hits_wall(moved) \/ hits_self(moved)
            IN  /\ game_over' = collided
                /\ IF head(moved) = food
                   THEN /\ snake' = grow(moved, 1)
                        /\ score' = score + 1
                        /\ food' \in random_free_cell(occupies(grow(moved, 1)))
                   ELSE /\ snake' = moved
                        /\ UNCHANGED <<score, food>>
       ELSE UNCHANGED <<snake, food, score, game_over>>
    /\ pc' = IF running THEN "loop" ELSE "done"
    /\ last' = "update"
    /\ UNCHANGED running

Update == UpdateStep /\ UNCHANGED log

Next ==
    \/ EventQuit
    \/ KeyEscape
    \/ \E d \in Directions : KeyDirection(d)
    \/ KeyRestart
    \/ Update

Spec == Init /\ [][Next]_vars

----------------------------------------------------------------------------
\* The game loop when no direction key is ever pressed: the events are
\* restart keys and quit intents, and frames keep coming until the loop
\* ends.  log counts the ticks played since the game started.

StraightTick ==
    /\ UpdateStep
    /\ log' = IF ~game_over THEN Append(log, "tick") ELSE log

StraightRestart ==
    /\ KeyRestartStep
    /\ log' = IF game_over THEN <<>> ELSE log

StraightNext ==
    \/ StraightTick
    \/ StraightRestart
    \/ EventQuit
    \/ KeyEscape

StraightSpec == Init /\ [][StraightNext]_vars /\ WF_vars(StraightTick)

----------------------------------------------------------------------------
\* A Snake on its own: constructed as start_new_game constructs it, then
\* driven by any sequence of set_direction, move and grow calls.

SnakeInit ==
    /\ snake = Snake(start)
    /\ food = NONE
    /\ score = 0
    /\ running = TRUE
    /\ game_over = FALSE
    /\ pc = "snake"
    /\ last = "Snake"
    /\ log = <<>>

Called(op, d, n, s) == [op |-> op, d |-> d, n |-> n, after |-> s]

CallSetDirection(d) ==
    /\ Len(log) < MaxLog
    /\ snake' = set_direction(snake, d)
    /\ log' = Append(log, Called("set_direction", d, 0, snake'))
    /\ last' = "set_direction"
    /\ UNCHANGED <<food, score, game_over, running, pc>>

CallMove ==
    /\ Len(log) < MaxLog
    /\ snake' = move(snake)
    /\ log' = Append(log, Called("move", NONE, 0, snake'))
    /\ last' = "move"
    /\ UNCHANGED <<food, score, game_over, running, pc>>

CallGrow(n) ==
    /\ Len(log) < MaxLog
    /\ snake' = grow(snake, n)
    /\ log' = Append(log, Called("grow", NONE, n, snake'))
    /\ last' = "grow"
    /\ UNCHANGED <<food, score, game_over, running, pc>>

SnakeNext ==
    \/ \E d \in Directions : CallSetDirection(d)
    \/ CallMove
    \/ \E n \in 0..MaxGrowArg : CallGrow(n)

SnakeSpec == SnakeInit /\ [][SnakeNext]_vars

----------------------------------------------------------------------------
\* A Food on its own: constructed on a set of occupied cells that is small
\* or leaves few grid cells free (with or without a cell beyond the right
\* edge), then respawned with the cell it was on added to the occupied
\* set, as a snake that eats it would add it.  log holds the last call and
\* its argument.

FoodCalled(op, occupied) == [op |-> op, occupied |-> occupied]

FoodInit ==
    /\ snake = Snake(start)
    /\ food = NONE
    /\ score = 0
    /\ running = TRUE
    /\ game_over = FALSE
    /\ pc = "food"
    /\ last = "none"
    /\ log = <<>>

FoodNew(occupied) ==
    /\ log = <<>>
    /\ food' \in random_free_cell(occupied)
    /\ log' = <<FoodCalled("Food", occupied)>>
    /\ last' = "Food"
    /\ UNCHANGED <<snake, score, game_over, running, pc>>

FoodRespawn ==
    /\ log # <<>>
    /\ food \notin log[1].occupied
    /\ \/ last = "Food"
       \/ Cardinality(AllCells \ log[1].occupied) <= MaxCells
    /\ food' \in random_free_cell(log[1].occupied \cup {food})
    /\ log' = <<FoodCalled("respawn", log[1].occupied \cup {food})>>
    /\ last' = "respawn"
    /\ UNCHANGED <<snake, score, game_over, running, pc>>

FoodNext ==
    \/ \E few \in {c \in SUBSET AllCells : Cardinality(c) <= MaxCells} :
          \E beyond \in SUBSET {<<COLUMNS, 0>>} :
              \/ FoodNew(few \cup beyond)
              \/ FoodNew((AllCells \ few) \cup beyond)
    \/ FoodRespawn

FoodSpec == FoodInit /\ [][FoodNext]_vars

----------------------------------------------------------------------------
\* Vocabulary of the properties, stated without the methods of the classes.

Grid == (0..(COLUMNS - 1)) \X (0..(ROWS - 1))

Opposite(d) ==
    CASE d = UP -> DOWN
      [] d = DOWN -> UP
      [] d = LEFT -> RIGHT
      [] d = RIGHT -> LEFT

Cells(s) == {s.body[i] : i \in 1..Len(s.body)}

\* A step of a frame's update taken while Playing: one tick of the game.
Tick == ~game_over /\ pc = "loop" /\ last' = "update"

\* The tick's move() put the head outside the grid or on another segment.
Collided(s) ==
    \/ s.body[1] \notin Grid
    \/ \E i \in 2..Len(s.body) : s.body[i] = s.body[1]

\* The tick's move() put the head on the food cell.
Ate == snake'.body[1] = food

----------------------------------------------------------------------------
\* Properties of the game loop (Spec).

\* C1: a tick whose move() collides sets game_over and has no further
\* effect: no point is scored, no growth is added and the food stays put.
C1_CollisionTickHasNoFurtherEffect ==
    [][(Tick /\ Collided(snake'))
         => /\ game_over'
            /\ score' = score
            /\ food' = food
            /\ snake'.pending_growth <= snake.pending_growth]_vars

\* C2: the food is never on a cell of the snake's body.
C2_FoodNeverOnSnake == food \notin Cells(snake)

\* C2 (amended): the food is never on a cell of the snake's body, unless the
\* body covers the whole grid, and then the food is at the fallback (0, 0).
C2_FoodOffSnakeUnlessBoardFull ==
    \/ food \notin Cells(snake)
    \/ (Grid \subseteq Cells(snake) /\ food = <<0, 0>>)

C2_Witness ==
    /\ ~game_over
    /\ last = "update"
    /\ score >= 2
    /\ Len(snake.body) >= 3
    /\ food \notin Cells(snake)

\* C3: once a quit intent has been processed, snake, food, score and
\* game_over never change again.
C3_NothingChangesAfterQuit ==
    [][~running => UNCHANGED <<snake, food, score, game_over>>]_vars

\* C5: while game_over is true, snake, food and score are frozen: only a
\* restart changes them, and only restart and quit intents change anything.
C5_FrozenWhileGameOver ==
    [][game_over
         => /\ last' # "restart" => UNCHANGED <<snake, food, score, game_over>>
            /\ last' \notin {"restart", "quit"}
                 => UNCHANGED <<snake, food, score, game_over, running>>]_vars

\* In GameOver a key other than a quit key was handled (a restart key
\* would have left GameOver, so it was a direction key) and changed nothing.
C5_Witness ==
    /\ game_over
    /\ snake.body[1] \notin Grid
    /\ last = "key"
    /\ running

\* C6: the tick that moves the head onto the food scores exactly 1, adds
\* exactly 1 to the growth pending after the move, which the following
\* move() turns into one more segment, and puts the food on a cell the
\* snake does not occupy; the score changes in no other way during play.
C6_EatingTick ==
    [][/\ (Tick /\ Ate)
            => /\ score' = score + 1
               /\ snake'.pending_growth
                    = (IF snake.pending_growth > 0
                       THEN snake.pending_growth - 1 ELSE 0) + 1
               /\ food' \notin Cells(snake')
       /\ (Tick /\ snake.pending_growth > 0)
            => Len(snake'.body) = Len(snake.body) + 1
       /\ (score' # score /\ last' # "restart") => (Tick /\ Ate)]_vars

\* C6 (amended): as C6, but the new food cell is off the snake only if the
\* snake leaves a cell free; on a full board it is the fallback (0, 0).
C6_EatingTickUnlessBoardFull ==
    [][/\ (Tick /\ Ate)
            => /\ score' = score + 1
               /\ snake'.pending_growth
                    = (IF snake.pending_growth > 0
                       THEN snake.pending_growth - 1 ELSE 0) + 1
               /\ IF Grid \subseteq Cells(snake')
                  THEN food' = <<0, 0>>
                  ELSE food' \in Grid \ Cells(snake')
       /\ (Tick /\ snake.pending_growth > 0)
            => Len(snake'.body) = Len(snake.body) + 1
       /\ (score' # score /\ last' # "restart") => (Tick /\ Ate)]_vars

C6_Witness ==
    /\ last = "update"
    /\ score >= 1
    /\ snake.pending_growth = 0
    /\ Len(snake.body) = score + 2
    /\ food \notin Cells(snake)

\* C7: a tick ends in GameOver exactly when its move() leaves the head
\* outside the grid or on a segment of index >= 1; nothing else sets
\* game_over, and a newly constructed snake does not hit the wall.
C7_GameOverIffCollision ==
    /\ [](snake = Snake(start) => ~hits_wall(snake))
    /\ [][/\ Tick => (game_over' <=> Collided(snake'))
          /\ (~game_over /\ game_over') => Tick]_vars

C7_Witness ==
    /\ game_over
    /\ last = "update"
    /\ snake.body[1] \in Grid
    /\ \E i \in 2..Len(snake.body) : snake.body[i] = snake.body[1]

----------------------------------------------------------------------------
\* Properties of the Snake class (SnakeSpec), read off the log of calls.

\* The Snake after the first i calls.
StateAt(i) == IF i = 0 THEN Snake(start) ELSE log[i].after

Moves == {i \in 1..Len(log) : log[i].op = "move"}

Grows == {i \in 1..Len(log) : log[i].op = "grow"}

MaxOf(S) == CHOOSE x \in S : \A y \in S : y <= x

\* The last move() before call j, or 0 for the construction.
PrevMove(j) == MaxOf({0} \cup {i \in Moves : i < j})

\* The set_direction calls between the move() before call j and call j.
Calls(j) == {k \in (PrevMove(j) + 1)..(j - 1) : log[k].op = "set_direction"}

\* Those of them whose argument is not the reverse of the committed direction.
Accepted(j) ==
    {k \in Calls(j) : log[k].d # Opposite(StateAt(PrevMove(j)).direction)}

\* C4: whatever set_direction calls come between two consecutive move()
\* calls, the second move() does not commit the reverse of the direction
\* the first committed, and the new head is never the old neck.
C4_NeverReverses ==
    \A j \in Moves :
        /\ StateAt(j).direction # Opposite(StateAt(PrevMove(j)).direction)
        /\ StateAt(j).body[1] # StateAt(j - 1).body[2]

C4_Witness ==
    \E j \in Moves :
        /\ PrevMove(j) >= 1
        /\ \E k, l \in Calls(j) :
              /\ k < l
              /\ k \in Accepted(j)
              /\ log[k].d # StateAt(PrevMove(j)).direction
              /\ log[l].d = Opposite(StateAt(PrevMove(j)).direction)

\* C8: move() commits the argument of the last accepted set_direction call
\* since the previous move(), and the previously buffered direction if no
\* call was accepted.
C8_LastAcceptedWins ==
    \A j \in Moves :
        StateAt(j).direction
          = IF Accepted(j) # {}
            THEN log[MaxOf(Accepted(j))].d
            ELSE StateAt(PrevMove(j)).next_direction

C8_Witness ==
    \E j \in Moves :
        \E k, l \in Accepted(j) :
            /\ k < l
            /\ log[k].d # log[l].d
            /\ StateAt(j).direction = log[l].d

\* C9: set_direction with the reverse of the committed direction changes
\* nothing of the snake, so the next move() commits what was buffered.
C9_ReverseIgnored ==
    \A i \in 1..Len(log) :
        (/\ log[i].op = "set_direction"
         /\ log[i].d = Opposite(StateAt(i - 1).direction))
            => /\ StateAt(i) = StateAt(i - 1)
               /\ (i + 1) \in Moves
                    => StateAt(i + 1).direction = StateAt(i - 1).next_direction

C9_Witness ==
    \E i \in 1..Len(log) :
        /\ log[i].op = "set_direction"
        /\ log[i].d = Opposite(StateAt(i - 1).direction)
        /\ StateAt(i - 1).next_direction # StateAt(i - 1).direction
        /\ (i + 1) \in Moves

\* C10: move() never shortens the body; grow(n) leaves the body alone and
\* adds max(1, n) to the pending growth; from pending growth g, the m-th
\* move() that follows (with no grow in between) lengthens the body by 1
\* if m <= g and leaves its length unchanged if m > g.
C10_GrowthIsLazy ==
    /\ \A j \in Moves : Len(StateAt(j).body) >= Len(StateAt(j - 1).body)
    /\ \A i \in Grows :
          /\ StateAt(i).body = StateAt(i - 1).body
          /\ StateAt(i).pending_growth
               = StateAt(i - 1).pending_growth
                   + (IF log[i].n > 1 THEN log[i].n ELSE 1)
    /\ \A i \in 0..Len(log) : \A j \in Moves :
          (j > i /\ Grows \cap (i + 1)..j = {})
            => LET m == Cardinality({k \in Moves : i < k /\ k <= j})
                   g == StateAt(i).pending_growth
               IN  Len(StateAt(j).body) - Len(StateAt(j - 1).body)
                     = IF m <= g THEN 1 ELSE 0

C10_Witness ==
    \E i \in Grows :
        /\ StateAt(i).pending_growth = 2
        /\ {i + 1, i + 2, i + 3} \subseteq Moves
        /\ Len(StateAt(i + 2).body) = Len(StateAt(i).body) + 2
        /\ Len(StateAt(i + 3).body) = Len(StateAt(i + 2).body)

\* C15: the same direction given k >= 1 times in a row leaves the snake as
\* the first of these calls left it, and the move() that follows commits
\* and steps as it would after that first call.
C15_RepeatedIntentIsIdempotent ==
    \A i, j \in 1..Len(log) :
        (/\ i < j
         /\ \A k \in i..j : log[k].op = "set_direction" /\ log[k].d = log[i].d)
            => /\ StateAt(j) = StateAt(i)
               /\ (j + 1) \in Moves
                    => /\ StateAt(j + 1).direction = StateAt(i).next_direction
                       /\ StateAt(j + 1).body[1]
                            = <<StateAt(i).body[1][1]
                                  + StateAt(i).next_direction[1],
                                StateAt(i).body[1][2]
                                  + StateAt(i).next_direction[2]>>
                       /\ Len(StateAt(j + 1).body)
                            = Len(StateAt(i).body)
                                + (IF StateAt(i).pending_growth > 0
                                   THEN 1 ELSE 0)

C15_Witness ==
    \E i \in 1..Len(log) :
        /\ i + 3 <= Len(log)
        /\ \A k \in i..(i + 2) :
              log[k].op = "set_direction" /\ log[k].d = log[i].d
        /\ StateAt(i) # StateAt(i - 1)
        /\ (i + 3) \in Moves

\* C16: a new snake at (COLUMNS // 4, ROWS // 2) has two segments and
\* faces RIGHT; three move() calls with nothing else in between leave it
\* two segments long with its head at (COLUMNS // 4 + 3, ROWS // 2).
C16_ThreeMovesRight ==
    /\ log = <<>>
         => /\ Len(snake.body) = 2
            /\ snake.body[1] = <<COLUMNS \div 4, ROWS \div 2>>
            /\ snake.direction = RIGHT
    /\ (Len(log) >= 3 /\ {1, 2, 3} \subseteq Moves)
         => /\ Len(StateAt(3).body) = 2
            /\ StateAt(3).body[1] = <<(COLUMNS \div 4) + 3, ROWS \div 2>>

C16_Witness ==
    /\ Len(log) = 3
    /\ {1, 2, 3} \subseteq Moves
    /\ snake = StateAt(3)

----------------------------------------------------------------------------
\* Further properties of the game loop (Spec).

\* C11: the snake's body always has at least two segments.
C11_BodyAtLeastTwo == Len(snake.body) >= 2

C11_Witness ==
    /\ last = "update"
    /\ ~game_over
    /\ Len(snake.body) = 2
    /\ snake.body[1] # start

\* C12: a restart processed in GameOver leaves a fresh game: the two
\* starting segments, facing RIGHT, nothing pending, score 0, Playing, and
\* the food on a grid cell that is neither of the two starting segments.
C12_RestartIsFresh ==
    last = "restart"
      => /\ snake.body = <<<<COLUMNS \div 4, ROWS \div 2>>,
                           <<(COLUMNS \div 4) - 1, ROWS \div 2>>>>
         /\ snake.direction = RIGHT
         /\ snake.next_direction = RIGHT
         /\ snake.pending_growth = 0
         /\ score = 0
         /\ ~game_over
         /\ food \in Grid
         /\ food # <<COLUMNS \div 4, ROWS \div 2>>
         /\ food # <<(COLUMNS \div 4) - 1, ROWS \div 2>>

C12_Witness ==
    /\ last = "restart"
    /\ ~game_over
    /\ running
    /\ food = <<0, 0>>

\* C14: while Playing, the body cells are pairwise distinct and all inside
\* the grid; a duplicate or an out-of-grid cell occurs only in GameOver.
C14_PlayingBodyDistinctInGrid ==
    ~game_over
      => /\ \A i \in 1..Len(snake.body) : snake.body[i] \in Grid
         /\ \A i, j \in 1..Len(snake.body) :
               i # j => snake.body[i] # snake.body[j]

C14_Witness ==
    /\ ~game_over
    /\ last = "update"
    /\ Len(snake.body) >= 5
    /\ snake.body[1][2] # snake.body[Len(snake.body)][2]

\* C18: body length plus pending growth is always score + 2, and the
\* pending growth is never negative.
C18_LengthMatchesScore ==
    /\ Len(snake.body) + snake.pending_growth = score + 2
    /\ snake.pending_growth >= 0

C18_Witness ==
    /\ last = "update"
    /\ score >= 3
    /\ snake.pending_growth = 1
    /\ Len(snake.body) = score + 1

Abs(n) == IF n < 0 THEN -n ELSE n

\* C19: consecutive body segments are orthogonal neighbours, and the
\* committed and buffered directions are among the four unit vectors.
C19_BodyIsConnected ==
    /\ \A i \in 1..(Len(snake.body) - 1) :
          Abs(snake.body[i][1] - snake.body[i + 1][1])
            + Abs(snake.body[i][2] - snake.body[i + 1][2]) = 1
    /\ snake.direction \in {<<0, -1>>, <<0, 1>>, <<-1, 0>>, <<1, 0>>}
    /\ snake.next_direction \in {<<0, -1>>, <<0, 1>>, <<-1, 0>>, <<1, 0>>}

C19_Witness ==
    /\ Len(snake.body) >= 4
    /\ snake.direction # snake.next_direction
    /\ snake.body[1][1] # snake.body[2][1]
    /\ snake.body[2][2] # snake.body[3][2]
    /\ game_over = FALSE

Distinct(b) == \A i, j \in 1..Len(b) : i # j => b[i] # b[j]

\* The tick's move() put the head on the cell the tail was on before it.
OntoOldTail == snake'.body[1] = snake.body[Len(snake.body)]

\* C17: after a tick's move(), hits_self() is judged on the body as the
\* tail handling left it: it is true exactly when the cells of that body
\* are not pairwise distinct, and (the head being inside the grid) it is
\* what decides game_over.  A head moved onto the cell the tail was on is
\* no collision when nothing was pending (the tail went first) and is one
\* when growth was pending (the tail stayed).
C17_SelfHitAfterTailHandling ==
    [][Tick
         => /\ Len(snake'.body)
                 = Len(snake.body) + (IF snake.pending_growth > 0 THEN 1 ELSE 0)
            /\ hits_self(snake') <=> ~Distinct(snake'.body)
            /\ snake'.body[1] \in Grid => (game_over' <=> hits_self(snake'))
            /\ OntoOldTail
                 => (hits_self(snake') <=> snake.pending_growth > 0)]_vars

C17_Witness ==
    /\ game_over
    /\ last = "update"
    /\ Len(snake.body) >= 5
    /\ snake.body[1] = snake.body[Len(snake.body)]
    /\ Distinct(SubSeq(snake.body, 2, Len(snake.body)))

----------------------------------------------------------------------------
\* Property of the game loop without direction intents (StraightSpec).

\* C20: with no direction intent, a fresh game is over exactly when
\* COLUMNS - COLUMNS // 4 ticks have been played, by the head leaving the
\* grid on the right, and that tick does come unless a quit ends the loop
\* first; food on the way changes neither.
C20_StraightRunEndsAtWall ==
    /\ [](/\ Len(log) <= COLUMNS - (COLUMNS \div 4)
          /\ game_over <=> Len(log) = COLUMNS - (COLUMNS \div 4)
          /\ game_over => snake.body[1] = <<COLUMNS, ROWS \div 2>>)
    /\ ~game_over ~> (game_over \/ pc = "done")

C20_Witness ==
    /\ game_over
    /\ Len(log) = COLUMNS - (COLUMNS \div 4)
    /\ snake.body[1] \notin Grid
    /\ score >= 2

----------------------------------------------------------------------------
\* Properties of the Food class (FoodSpec).

\* C13: respawn(occupied) puts the food on a grid cell; the cell is in
\* occupied only if occupied covers the whole grid, and whenever occupied
\* covers the whole grid the cell is the fallback (0, 0).
C13_RespawnOffOccupiedUnlessFull ==
    (log # <<>> /\ last = "respawn")
      => LET occupied == log[1].occupied
         IN  /\ food \in Grid
             /\ food \in occupied => Grid \subseteq occupied
             /\ Grid \subseteq occupied => food = <<0, 0>>

C13_Witness ==
    /\ log # <<>>
    /\ last = "respawn"
    /\ Grid \subseteq log[1].occupied
    /\ <<COLUMNS, 0>> \in log[1].occupied
    /\ food = <<0, 0>>

====
